---- MODULE Spec2Model ----
(***************************************************************************)
(* Stream fan-out engine of transform-cli.                                 *)
(*                                                                         *)
(* StreamProcessor (src/src/stream-processor.ts, lines 1-146) duplicates   *)
(* every chunk of a source stream into one PassThrough per transform and   *)
(* pipes each PassThrough into its transform: a BufferTransform            *)
(* (src/unnamed/part_003) or a ChildProcessTransform                       *)
(* (src/src/transforms/child-transform.ts).  processVideo                  *)
(* (src/unnamed/part_001, lines 111-133) awaits the run and destroys the   *)
(* transforms in its finally block.                                        *)
(* processVideoFile and the process-video command (lines 148-210) check   *)
(* the input, await processVideo, write the two output files and decide    *)
(* the exit status.                                                        *)
(*                                                                         *)
(* Every action is one callback of the Node.js event loop, run to          *)
(* completion.  The stream library is modelled by its contract:            *)
(*  - a Transform runs one _transform at a time, in write order;           *)
(*  - 'finish' is emitted once end() was called, every written chunk was   *)
(*    acknowledged and _final called back.  BufferTransform overrides      *)
(*    _final, so 'finish' does not wait for the callback of _flush;        *)
(*  - 'end' is emitted once push(null) was called;                         *)
(*  - push(chunk) after push(null) destroys the stream with an error;      *)
(*  - destroy(err) calls _destroy once and emits 'error' with what         *)
(*    _destroy passes on; after both 'finish' and 'end' the stream         *)
(*    destroys itself (autoDestroy);                                       *)
(*  - pipe() stops feeding a destination that emitted 'error' or 'finish'; *)
(*  - a settled Promise ignores every later resolve and reject;            *)
(*  - the continuation of an await runs before the next timer or I/O       *)
(*    callback.                                                            *)
(***************************************************************************)
EXTENDS Integers, Sequences, FiniteSets, TLC

\* Bounds of the model.
MaxChunks == 3      \* chunks the source may emit in one run
MaxOut == 2         \* chunks the external process may write to its output

\* Payloads: a chunk is a non-empty sequence of bytes.  The k-th chunk of the
\* source is k bytes of value k, so that chunks differ in content and length;
\* the process writes chunks of one byte.
SrcChunk(k) == [j \in 1..k |-> k]
OutChunks == { <<7>> }

VARIABLES
    transforms,   \* this.transforms: the transform objects, in list order
    phase,        \* "created" | "threw" | "constructed" | "running"
    listening,    \* listeners are attached to the source (setupInputStream ran)
    srcState,     \* "open" | "ended" | "errored"
    accepted,     \* chunks the source 'data' handler has received, in order
    sp,           \* StreamProcessor: completedTransforms and the promise
    tornDown,     \* processVideo's finally block has run
    host          \* the process-video command: stage, files, exit status

vars == <<transforms, phase, listening, srcState, accepted, sp, tornDown, host>>

----------------------------------------------------------------------------
\* Pure helpers

RECURSIVE Flatten(_)
\* Buffer.concat of a list of chunks, without a length argument.
Flatten(list) ==
    IF list = <<>> THEN <<>> ELSE Head(list) \o Flatten(Tail(list))

RECURSIVE SumLen(_)
SumLen(list) ==
    IF list = <<>> THEN 0 ELSE Len(Head(list)) + SumLen(Tail(list))

\* Buffer.concat(list, totalLength): the chunks copied in order into a buffer
\* of exactly totalLength bytes (truncated, or zero-filled at the end).
BufferConcat(list, totalLength) ==
    LET all == Flatten(list)
    IN  [k \in 1..totalLength |-> IF k <= Len(all) THEN all[k] ELSE 0]

IsPrefix(s, t) ==
    /\ Len(s) <= Len(t)
    /\ \A k \in 1..Len(s) : s[k] = t[k]

Indices == 1..Len(transforms)

----------------------------------------------------------------------------
\* Errors and the promise

NoError == [kind |-> "none", sink |-> 0, code |-> 0]
ConfigError == [kind |-> "config", sink |-> 0, code |-> 0]
SourceErr == [kind |-> "source", sink |-> 0, code |-> 0]
EmptyError(i) == [kind |-> "empty", sink |-> i, code |-> 0]
ExitError(i, c) == [kind |-> "exit", sink |-> i, code |-> c]
TimeoutError(i) == [kind |-> "timeout", sink |-> i, code |-> 0]
StdinErr(i) == [kind |-> "stdin", sink |-> i, code |-> 0]
UnavailableError(i) == [kind |-> "unavailable", sink |-> i, code |-> 0]
PushAfterEOF(i) == [kind |-> "pushAfterEOF", sink |-> i, code |-> 0]
EpipeError(i) == [kind |-> "EPIPE", sink |-> i, code |-> 0]
SpawnError(i) == [kind |-> "spawn", sink |-> i, code |-> 0]

NoResult == [n \in {} |-> <<>>]

PendingPromise == [state |-> "pending", value |-> NoResult, reason |-> NoError]

\* resolve of `new Promise((resolve, reject) => ...)`: settles a pending
\* promise, and does nothing to a settled one.
resolvePromise(p, v) ==
    IF p.state = "pending"
    THEN [state |-> "resolved", value |-> v, reason |-> NoError]
    ELSE p

\* reject of the same promise.
RejectDropsGate(p, e) ==
    [state |-> "rejected", value |-> NoResult, reason |-> e]

rejectPromise(p, e) ==
    IF p.state = "pending"
    THEN [state |-> "rejected", value |-> NoResult, reason |-> e]
    ELSE p

----------------------------------------------------------------------------
\* Transform objects

\* Exit codes of the 'exit' event: -1 stands for code null (ended by a signal).
OwnExitCodes == {0, 1}
SignalCode == 0 - 1

\* new BufferTransform(): buffer = [], totalLength = 0, isFinished = false.
\* The fields below `destroyed` belong to ChildProcessTransform and stay at
\* these values in a BufferTransform.
NewBufferTransform ==
    [cls |-> "BufferTransform", kind |-> "buffer",
     buffer |-> <<>>, totalLength |-> 0, isFinished |-> FALSE,
     passQ |-> <<>>,          \* written to the PassThrough, not yet transformed
     passEnded |-> FALSE,     \* pass.end() was called
     piped |-> FALSE,         \* the PassThrough is piped into the transform
     consumed |-> <<>>,       \* chunks _transform was called with
     inflight |-> FALSE,      \* a _transform waits for 'drain' to call back
     selfEnded |-> FALSE,     \* the transform called this.end() itself
     finishEmitted |-> FALSE, endEmitted |-> FALSE,
     rEnded |-> FALSE,        \* push(null) was called
     destroyed |-> FALSE,
     proc |-> "none",         \* this.child: "none" | "alive" | "exited", or
                              \* "unspawned": a child object without a process
     errDue |-> FALSE,        \* an 'error' event of the child is due
     exitCode |-> 0, killed |-> FALSE,
     timeout |-> FALSE,       \* the timeout timer is armed
     timedOut |-> FALSE,      \* the timeout callback has run
     hasError |-> FALSE, processCompleted |-> FALSE,
     stdin |-> "none",        \* "none" | "open" | "ended" | "broken"
     reading |-> FALSE,       \* the process still reads its input
     epipe |-> FALSE,         \* an EPIPE 'error' of stdin is due
     sawEpipe |-> FALSE,      \* the stdin handler has seen EPIPE
     flushCb |-> FALSE,       \* the callback of stdin.end(cb) is due
     stdoutEnded |-> FALSE,
     stdinWritten |-> <<>>,   \* chunks handed to stdin.write
     nOut |-> 0,              \* stdout 'data' events so far
     stderrLogged |-> FALSE,  \* console.error has printed a stderr chunk
     echo |-> FALSE]          \* the command copies its input to its output

\* new FFmpegTransform(): the ChildProcessTransform constructor has spawned
\* the process with three pipes and armed the timeout (timeout: 60000).
NewFFmpegTransform ==
    [NewBufferTransform EXCEPT
        !.cls = "FFmpegTransform", !.kind = "child",
        !.proc = "alive", !.stdin = "open", !.reading = TRUE,
        !.timeout = TRUE]

\* new ChildProcessTransform({command}) around a command that copies its
\* input to its output and exits with code 0 at the end of its input; the
\* default timeout is armed.
NewChildProcessTransform ==
    [NewFFmpegTransform EXCEPT !.cls = "ChildProcessTransform", !.echo = TRUE]

\* new FFmpegTransform() when spawn throws or a pipe is missing: the catch of
\* initChildProcess has set hasError and emitted 'error' before anyone but the
\* constructor's logging listener could hear it; this.child stays unusable
\* and the timeout is armed all the same.
NewFailedSpawnTransform ==
    [NewFFmpegTransform EXCEPT
        !.proc = "none", !.stdin = "none", !.reading = FALSE,
        !.hasError = TRUE]

\* new FFmpegTransform() when the command cannot be started (ENOENT): spawn
\* returns a child object with pipes and no process, and the child's 'error'
\* event follows on the next tick.
NewUnspawnedTransform ==
    [NewFFmpegTransform EXCEPT
        !.proc = "unspawned", !.reading = FALSE, !.errDue = TRUE]

\* The transform lists a run is started with: none, the accumulating sink
\* alone, the list processVideo builds, and the accumulating sink beside a
\* copying command.
Configs ==
    { <<>>,
      <<NewBufferTransform>>,
      <<NewBufferTransform, NewFFmpegTransform>>,
      <<NewBufferTransform, NewChildProcessTransform>> }

\* BufferTransform.getBuffer
getBuffer(t) ==
    IF Len(t.buffer) = 0
    THEN <<>>
    ELSE BufferConcat(t.buffer, t.totalLength)

\* getBuffer has no failing path: it neither throws nor tests isFinished, and
\* an empty list makes it return an empty Buffer.
getBufferFails(t) == FALSE

\* BufferTransform.isComplete
isComplete(t) == t.isFinished

\* BufferTransform._transform: keep the chunk, count it, pass it on, call back.
TransformPrepends(t, chunk) ==
    [t EXCEPT !.buffer = <<chunk>> \o @, !.totalLength = @ + Len(chunk)]

BufferTransform_transform(t, chunk) ==
    [t EXCEPT !.buffer = Append(@, chunk), !.totalLength = @ + Len(chunk)]

\* BufferTransform._final
BufferTransform_final(t) == [t EXCEPT !.isFinished = TRUE]

\* BufferTransform._flush; its callback makes Transform push(null).
BufferTransform_flush(t) == [t EXCEPT !.isFinished = TRUE, !.rEnded = TRUE]

\* The 'finish' and 'end' listeners of the BufferTransform constructor.
BufferTransform_onFinished(t) == [t EXCEPT !.isFinished = TRUE]

\* ChildProcessTransform._destroy without its callback: clear the timer and
\* kill the process; kill() marks the child killed when it is still alive.
DestroyKeepsProcess(t) ==
    [t EXCEPT !.timeout = FALSE]

DestroyKeepsTimer(t) ==
    [t EXCEPT !.killed = @ \/ (t.proc = "alive")]

ChildProcessTransform_destroy(t) ==
    [t EXCEPT !.timeout = FALSE, !.killed = @ \/ (t.proc = "alive")]

\* What _destroy hands to its callback: EPIPE is not propagated.
DestroyPropagatesAll(t, e) == e

DestroyCallbackError(t, e) ==
    IF t.kind = "child" /\ e.kind = "EPIPE" THEN NoError ELSE e

\* stream.destroy(e): once only; `err` is the 'error' the stream then emits.
StreamDestroy(t, e) ==
    IF t.destroyed
    THEN [t |-> t, err |-> NoError]
    ELSE [t |-> [(IF t.kind = "child"
                    THEN ChildProcessTransform_destroy(t)
                    ELSE t)
                 EXCEPT !.destroyed = TRUE, !.piped = FALSE,
                        !.inflight = FALSE, !.flushCb = FALSE],
          err |-> DestroyCallbackError(t, e)]

\* this.push(null) and this.end() of the exit and stdout-end handlers.
ExitLeavesStreamOpen(t) == t

PushNullAndEnd(t) ==
    IF t.destroyed THEN t ELSE [t EXCEPT !.rEnded = TRUE, !.selfEnded = TRUE]

\* ChildProcessTransform._transform.  canWrite is the answer of stdin.write
\* when the input pipe is open; a write to an ended or broken pipe answers
\* false and 'drain' never follows.
TransformIgnoresCompletion(t, i, chunk, canWrite) ==
    IF t.proc = "none" \/ t.killed
    THEN StreamDestroy(t, UnavailableError(i))
    ELSE IF t.stdin = "open"
    THEN [t |-> [t EXCEPT !.stdinWritten = Append(@, chunk),
                          !.epipe = @ \/ ~t.reading,
                          !.inflight = ~canWrite],
          err |-> NoError]
    ELSE [t |-> [t EXCEPT !.inflight = TRUE], err |-> NoError]

TransformKeepsInput(t, i, chunk, canWrite) ==
    IF t.processCompleted
    THEN [t |-> t, err |-> NoError]
    ELSE IF t.proc = "none" \/ t.killed \/ t.hasError
    THEN StreamDestroy(t, UnavailableError(i))
    ELSE IF t.stdin = "open"
    THEN [t |-> [t EXCEPT !.stdinWritten = Append(@, chunk),
                          !.buffer = Append(@, chunk),
                          !.totalLength = @ + Len(chunk),
                          !.epipe = @ \/ ~t.reading,
                          !.inflight = ~canWrite],
          err |-> NoError]
    ELSE [t |-> [t EXCEPT !.inflight = TRUE], err |-> NoError]

TransformNeverSuspends(t, i, chunk, canWrite) ==
    IF t.processCompleted
    THEN [t |-> t, err |-> NoError]
    ELSE IF t.proc = "none" \/ t.killed \/ t.hasError
    THEN StreamDestroy(t, UnavailableError(i))
    ELSE IF t.stdin = "open"
    THEN [t |-> [t EXCEPT !.stdinWritten = Append(@, chunk),
                          !.epipe = @ \/ ~t.reading],
          err |-> NoError]
    ELSE [t |-> t, err |-> NoError]

ChildProcessTransform_transform(t, i, chunk, canWrite) ==
    IF t.processCompleted
    THEN [t |-> t, err |-> NoError]
    ELSE IF t.proc = "none" \/ t.killed \/ t.hasError
    THEN StreamDestroy(t, UnavailableError(i))
    ELSE IF t.stdin = "open"
    THEN [t |-> [t EXCEPT !.stdinWritten = Append(@, chunk),
                          !.epipe = @ \/ ~t.reading,
                          !.inflight = ~canWrite],
          err |-> NoError]
    ELSE [t |-> [t EXCEPT !.inflight = TRUE], err |-> NoError]

\* ChildProcessTransform._flush: end stdin and call back when it has ended,
\* or call back at once; the callback makes Transform push(null).
FlushIgnoresCompletion(t) ==
    IF t.proc # "none"
    THEN [t EXCEPT !.stdin = IF @ = "open" THEN "ended" ELSE @,
                   !.flushCb = TRUE]
    ELSE [t EXCEPT !.rEnded = TRUE]

ChildProcessTransform_flush(t) ==
    IF t.proc # "none" /\ ~t.killed /\ ~t.processCompleted
    THEN [t EXCEPT !.stdin = IF @ = "open" THEN "ended" ELSE @,
                   !.flushCb = TRUE]
    ELSE [t EXCEPT !.rEnded = TRUE]

----------------------------------------------------------------------------
\* StreamProcessor

NewProcessor == [completedTransforms |-> {},
                 promise |-> [state |-> "none", value |-> NoResult,
                              reason |-> NoError]]

\* The constructor: throws for an empty list.
ConstructorAcceptsEmpty(ts) == "constructed"

Constructor(ts) ==
    IF Len(ts) = 0 THEN "threw" ELSE "constructed"

\* handleError: rejectPromise is set for the whole run.
HandleErrorIgnores(s, e) == s

handleError(s, e) ==
    [s EXCEPT !.promise = rejectPromise(@, e)]

\* allCompleted of checkCompletion.
AnyCompleted(s, ts) ==
    \E i \in 1..Len(ts) : ts[i].cls \in s.completedTransforms

allCompleted(s, ts) ==
    \A i \in 1..Len(ts) : ts[i].cls \in s.completedTransforms

\* The first transform, in list order, whose buffer is empty; 0 if none.
FirstEmpty(ts) ==
    LET empties == {i \in 1..Len(ts) : Len(getBuffer(ts[i])) = 0}
    IN  IF empties = {} THEN 0
        ELSE CHOOSE i \in empties : \A j \in empties : i <= j

\* result[transformName] = buffer, in list order: a later transform of the
\* same name overwrites an earlier one.
CollectResult(ts) ==
    [n \in {ts[i].cls : i \in 1..Len(ts)} |->
        LET last == CHOOSE i \in 1..Len(ts) :
                        /\ ts[i].cls = n
                        /\ \A j \in 1..Len(ts) : ts[j].cls = n => j <= i
        IN  getBuffer(ts[last])]

\* checkCompletion
CheckSkipsEmptyTest(s, ts) ==
    IF allCompleted(s, ts)
    THEN [s EXCEPT !.promise = resolvePromise(@, CollectResult(ts))]
    ELSE s

checkCompletion(s, ts) ==
    IF allCompleted(s, ts)
    THEN IF FirstEmpty(ts) # 0
         THEN handleError(s, EmptyError(FirstEmpty(ts)))
         ELSE [s EXCEPT !.promise = resolvePromise(@, CollectResult(ts))]
    ELSE s

\* The 'finish', 'end' and 'error' listeners of setupTransformStream.
onFinish(s, ts, i) ==
    checkCompletion([s EXCEPT !.completedTransforms = @ \cup {ts[i].cls}], ts)

OnEndTogglesToken(s, ts, i) ==
    checkCompletion([s EXCEPT !.completedTransforms =
                        IF ts[i].cls \in @ THEN @ \ {ts[i].cls}
                                            ELSE @ \cup {ts[i].cls}], ts)

onEnd(s, ts, i) ==
    checkCompletion([s EXCEPT !.completedTransforms = @ \cup {ts[i].cls}], ts)

ErrorAlwaysFatal(s, ts, i, e) == handleError(s, e)

ErrorCountsAsCompletion(s, ts, i, e) ==
    checkCompletion([s EXCEPT !.completedTransforms = @ \cup {ts[i].cls}], ts)

onError(s, ts, i, e) ==
    IF e.kind = "EPIPE"
    THEN checkCompletion([s EXCEPT !.completedTransforms = @ \cup {ts[i].cls}],
                         ts)
    ELSE handleError(s, e)

\* An 'error' emitted on a transform reaches the listener above, and pipe()
\* stops feeding the transform.
Unpipe(t) == [t EXCEPT !.piped = FALSE]

AfterEmit(s, ts, i, e) ==
    IF e = NoError THEN s ELSE onError(s, ts, i, e)

\* pass.write(chunk) and pass.end() of setupInputStream.
PassWriteDropsWhenBusy(t, chunk) ==
    IF t.passQ = <<>> THEN [t EXCEPT !.passQ = Append(@, chunk)] ELSE t

passWrite(t, chunk) == [t EXCEPT !.passQ = Append(@, chunk)]

passEnd(t) == [t EXCEPT !.passEnded = TRUE]

\* pass.write(chunk) has answered false and 'drain' has not followed: the
\* PassThrough still holds a chunk that its transform has not taken (a chunk
\* stands for at least a highWaterMark of bytes, as the chunks of a file
\* stream are).
passNeedsDrain(t) == t.passQ # <<>>

Outcome == sp.promise.state

Running == phase = "running"

\* The pipe may hand the transform its next chunk.
CanTakeUnlessAnyStalled(t) ==
    /\ t.piped /\ ~t.destroyed /\ ~t.finishEmitted /\ ~t.inflight
    /\ t.passQ # <<>>
    /\ \A i \in Indices : ~transforms[i].inflight

CanTake(t) ==
    /\ t.piped /\ ~t.destroyed /\ ~t.finishEmitted /\ ~t.inflight
    /\ t.passQ # <<>>

\* 'finish' is due: end() was called (by the pipe when the PassThrough has
\* ended and is drained, or by the transform itself) and every chunk written
\* to the transform has been acknowledged.
FinishDue(t) ==
    /\ ~t.destroyed /\ ~t.finishEmitted /\ ~t.inflight
    /\ \/ t.piped /\ t.passEnded /\ t.passQ = <<>>
       \/ t.selfEnded /\ ~CanTake(t)

\* 'end' is due: push(null) was called.
EndDue(t) == ~t.destroyed /\ t.rEnded /\ ~t.endEmitted

\* Timers and I/O callbacks run one at a time, each followed by everything it
\* put on the next-tick and microtask queues: the data a pipe can hand on,
\* the 'finish' and 'end' events that are due, and the continuation of
\* `await processor.processStream(...)` (the finally block of processVideo).
MacroOK ==
    /\ Outcome = "pending" \/ tornDown
    /\ \A i \in Indices :
        ~CanTake(transforms[i]) /\ ~FinishDue(transforms[i])
            /\ ~EndDue(transforms[i]) /\ ~transforms[i].errDue

----------------------------------------------------------------------------
\* The process-video command (processVideoFile and the command's action)

\* stage: "checking" | "processing" | "done"; files: the files written, by
\* name; status: "none" while the command runs, then "0" or "1".
NewHost == [stage |-> "checking", files |-> NoResult, status |-> "none",
            diagnostic |-> FALSE]

\* catch of processVideoFile (print the error, rethrow) and catch of the
\* action (process.exit(1)).
HostFails(h) ==
    [h EXCEPT !.stage = "done", !.diagnostic = TRUE, !.status = "1"]

\* The first lines of processVideoFile: the input file must exist.
HostCheckInput(h, exists) ==
    IF exists THEN [h EXCEPT !.stage = "processing"] ELSE HostFails(h)

\* Where the file operations of processVideoFile may throw.
FileOutcomes == {"ok", "mkdirThrows", "firstWriteThrows", "secondWriteThrows"}

\* writeFileSync(path, data): throws for data that is undefined (no such
\* entry in the result) or when the file system makes it throw.
WriteFile(files, name, result, key, throws) ==
    IF throws \/ key \notin DOMAIN result
    THEN [ok |-> FALSE, files |-> files]
    ELSE [ok |-> TRUE,
          files |-> [n \in DOMAIN files \cup {name} |->
                        IF n = name THEN result[key] ELSE files[n]]]

\* processVideoFile after `await processVideo(...)`: a rejected run (or a
\* throwing constructor) goes to the catch; a resolved run makes the output
\* directory and writes the two files, and the command ends with status 0
\* when nothing threw.
HostAlwaysSucceeds(h, p, threw, io) ==
    [h EXCEPT !.stage = "done", !.status = "0"]

HostAfterRun(h, p, threw, io) ==
    IF threw \/ p.state # "resolved" \/ io = "mkdirThrows"
    THEN HostFails(h)
    ELSE LET w1 == WriteFile(h.files, "original.mp4", p.value,
                             "BufferTransform", io = "firstWriteThrows")
             w2 == WriteFile(w1.files, "thumbnail.jpg", p.value,
                             "FFmpegTransform", io = "secondWriteThrows")
         IN  IF ~w1.ok THEN HostFails(h)
             ELSE IF ~w2.ok THEN HostFails([h EXCEPT !.files = w1.files])
             ELSE [h EXCEPT !.stage = "done", !.status = "0",
                            !.files = w2.files]

----------------------------------------------------------------------------
\* Initial state: the command starts; the transforms of its run are drawn
\* here and exist from the first line of processVideo, no StreamProcessor yet.

Init ==
    /\ transforms \in Configs
    /\ phase = "created"
    /\ listening = FALSE
    /\ srcState = "open"
    /\ accepted = <<>>
    /\ sp = NewProcessor
    /\ tornDown = FALSE
    /\ host = NewHost

----------------------------------------------------------------------------
\* processVideo: new StreamProcessor(transforms), processStream, finally

\* processVideoFile up to the call of processVideo.
ProcessVideoFile ==
    /\ host.stage = "checking"
    /\ \E exists \in BOOLEAN : host' = HostCheckInput(host, exists)
    /\ UNCHANGED <<transforms, phase, listening, srcState, accepted, sp, tornDown>>

NewStreamProcessor ==
    /\ host.stage = "processing"
    /\ phase = "created"
    /\ phase' = Constructor(transforms)
    /\ UNCHANGED <<transforms, listening, srcState, accepted, sp, tornDown, host>>

\* processStream: the promise, then setupTransformStream for every transform
\* (pipe and listeners), then setupInputStream (listeners on the source).
ProcessStream ==
    /\ phase = "constructed"
    /\ phase' = "running"
    /\ sp' = [sp EXCEPT !.promise = PendingPromise]
    /\ transforms' = [i \in Indices |-> [transforms[i] EXCEPT !.piped = TRUE]]
    /\ listening' = TRUE
    /\ UNCHANGED <<srcState, accepted, tornDown, host>>

\* transforms.forEach(t => t.destroy()) once the run has settled or the
\* constructor has thrown, and the continuation of processVideoFile that
\* follows it without another event in between.
Teardown ==
    /\ ~tornDown
    /\ \/ phase = "threw"
       \/ Running /\ Outcome # "pending"
    /\ tornDown' = TRUE
    /\ transforms' = [i \in Indices |-> StreamDestroy(transforms[i], NoError).t]
    /\ \E io \in FileOutcomes :
            host' = HostAfterRun(host, sp.promise, phase = "threw", io)
    /\ UNCHANGED <<phase, listening, srcState, accepted, sp>>

----------------------------------------------------------------------------
\* The source: 'data', 'end', 'error' listeners of setupInputStream

SourceData(chunk) ==
    /\ listening /\ MacroOK
    /\ srcState = "open"
    /\ Len(accepted) < MaxChunks
    /\ accepted' = Append(accepted, chunk)
    /\ transforms' = [i \in Indices |-> passWrite(transforms[i], chunk)]
    /\ UNCHANGED <<phase, listening, srcState, sp, tornDown, host>>

SourceEnd ==
    /\ listening /\ MacroOK
    /\ srcState = "open"
    /\ srcState' = "ended"
    /\ transforms' = [i \in Indices |-> passEnd(transforms[i])]
    /\ UNCHANGED <<phase, listening, accepted, sp, tornDown, host>>

SourceError ==
    /\ listening /\ MacroOK
    /\ srcState = "open"
    /\ srcState' = "errored"
    /\ sp' = handleError(sp, SourceErr)
    /\ UNCHANGED <<transforms, phase, listening, accepted, tornDown, host>>

----------------------------------------------------------------------------
\* The pipe PassThrough -> transform

Took(t) ==
    [t EXCEPT !.passQ = Tail(@), !.consumed = Append(@, Head(t.passQ))]

BufferWrite(i) ==
    /\ Running
    /\ transforms[i].kind = "buffer"
    /\ CanTake(transforms[i])
    /\ transforms' = [transforms EXCEPT ![i] =
            BufferTransform_transform(Took(@), Head(transforms[i].passQ))]
    /\ UNCHANGED <<phase, listening, srcState, accepted, sp, tornDown, host>>

ChildWrite(i, canWrite) ==
    /\ Running
    /\ transforms[i].kind = "child"
    /\ CanTake(transforms[i])
    /\ canWrite \/ transforms[i].stdin = "open"
    /\ LET t == transforms[i]
           r == ChildProcessTransform_transform(Took(t), i, Head(t.passQ),
                                                canWrite)
           nts == [transforms EXCEPT ![i] = r.t]
       IN  /\ transforms' = nts
           /\ sp' = AfterEmit(sp, nts, i, r.err)
    /\ UNCHANGED <<phase, listening, srcState, accepted, tornDown, host>>

\* The autoDestroy of a stream that has emitted both 'finish' and 'end'.
AutoDestroy(t) ==
    IF t.finishEmitted /\ t.endEmitted THEN StreamDestroy(t, NoError).t ELSE t

\* end() has been called and every written chunk acknowledged: _final, the
\* 'prefinish' hook that calls _flush, then 'finish'.
Finish(i) ==
    /\ Running
    /\ LET t == transforms[i]
       IN  /\ FinishDue(t)
           /\ LET f == BufferTransform_final(t)
                  g == IF t.kind = "child"
                       THEN ChildProcessTransform_flush(f)
                       ELSE BufferTransform_flush(f)
                  h == [BufferTransform_onFinished(g) EXCEPT
                            !.finishEmitted = TRUE, !.piped = FALSE]
                  nts == [transforms EXCEPT ![i] = h]
              IN  /\ sp' = onFinish(sp, nts, i)
                  /\ transforms' = [transforms EXCEPT ![i] = AutoDestroy(h)]
    /\ UNCHANGED <<phase, listening, srcState, accepted, tornDown, host>>

\* push(null) has been called: 'end'.
End(i) ==
    /\ Running
    /\ LET t == transforms[i]
       IN  /\ EndDue(t)
           /\ LET h == [BufferTransform_onFinished(t) EXCEPT
                            !.endEmitted = TRUE]
                  nts == [transforms EXCEPT ![i] = h]
              IN  /\ sp' = onEnd(sp, nts, i)
                  /\ transforms' = [transforms EXCEPT ![i] = AutoDestroy(h)]
    /\ UNCHANGED <<phase, listening, srcState, accepted, tornDown, host>>

----------------------------------------------------------------------------
\* The external process and the handlers of initChildProcess

IsChild(i) == Running /\ transforms[i].kind = "child"

\* The codes an 'exit' event may carry: the process's own, or null when a
\* signal ended it (a kill() may still meet a process that ended by itself).
\* A copying command ends by itself, with code 0, only at the end of its
\* input.
ExitCodes(t) ==
    LET own == IF ~t.echo THEN OwnExitCodes
               ELSE IF t.stdin \in {"ended", "broken"} THEN {0} ELSE {}
    IN  IF t.killed THEN own \cup {SignalCode} ELSE own

\* The chunks the next stdout 'data' event may carry: any output of ffmpeg,
\* the next chunk a copying command has read and not yet written back.
OutputOf(t) ==
    IF t.proc = "unspawned" THEN {}
    ELSE IF t.echo
    THEN IF t.nOut < Len(t.stdinWritten)
         THEN {t.stdinWritten[t.nOut + 1]} ELSE {}
    ELSE IF t.nOut < MaxOut THEN OutChunks ELSE {}

\* stdout may end: at any time for ffmpeg; for a copying command when it was
\* killed, or after the end of its input and all of its output.
OutputMayEnd(t) ==
    t.echo => \/ t.killed
              \/ /\ t.stdin \in {"ended", "broken"}
                 /\ t.nOut = Len(t.stdinWritten)

\* The process stops reading its input while the pipe is still open.
ProcCloseStdin(i) ==
    /\ IsChild(i)
    /\ transforms[i].proc = "alive"
    /\ ~transforms[i].echo
    /\ transforms[i].reading /\ transforms[i].stdin = "open"
    /\ transforms' = [transforms EXCEPT ![i].reading = FALSE]
    /\ UNCHANGED <<phase, listening, srcState, accepted, sp, tornDown, host>>

\* 'drain' of stdin: the suspended _transform calls back.
StdinDrain(i) ==
    /\ IsChild(i) /\ MacroOK
    /\ transforms[i].inflight
    /\ transforms[i].proc = "alive"
    /\ transforms[i].reading /\ transforms[i].stdin = "open"
    /\ transforms' = [transforms EXCEPT ![i].inflight = FALSE]
    /\ UNCHANGED <<phase, listening, srcState, accepted, sp, tornDown, host>>

\* The callback of stdin.end(cb) in _flush: callback(), and Transform pushes
\* null.
StdinFlushed(i) ==
    /\ IsChild(i)
    /\ transforms[i].flushCb
    /\ transforms' = [transforms EXCEPT ![i].flushCb = FALSE,
                                        ![i].rEnded = TRUE]
    /\ UNCHANGED <<phase, listening, srcState, accepted, sp, tornDown, host>>

\* The stdin 'error' handler.
StdinErrorAlwaysReported(t, i, code) ==
    IF code = "EPIPE"
    THEN [t |-> [t EXCEPT !.stdin = "broken", !.epipe = FALSE,
                          !.sawEpipe = TRUE],
          err |-> NoError]
    ELSE [t |-> Unpipe([t EXCEPT !.stdin = "broken", !.epipe = FALSE,
                                 !.hasError = TRUE]),
          err |-> StdinErr(i)]

StdinErrorHandler(t, i, code) ==
    IF code = "EPIPE"
    THEN [t |-> [t EXCEPT !.stdin = "broken", !.epipe = FALSE,
                          !.sawEpipe = TRUE],
          err |-> NoError]
    ELSE IF ~t.processCompleted
    THEN [t |-> Unpipe([t EXCEPT !.stdin = "broken", !.epipe = FALSE,
                                 !.hasError = TRUE]),
          err |-> StdinErr(i)]
    ELSE [t |-> [t EXCEPT !.stdin = "broken", !.epipe = FALSE],
          err |-> NoError]

StdinError(i, code) ==
    /\ IsChild(i) /\ MacroOK
    /\ transforms[i].stdin \in {"open", "ended"}
    /\ IF code = "EPIPE" THEN transforms[i].epipe
                         ELSE transforms[i].proc = "alive"
    /\ LET r == StdinErrorHandler(transforms[i], i, code)
           nts == [transforms EXCEPT ![i] = r.t]
       IN  /\ transforms' = nts
           /\ sp' = AfterEmit(sp, nts, i, r.err)
    /\ UNCHANGED <<phase, listening, srcState, accepted, tornDown, host>>

\* The stdout 'data' handler: keep the chunk, count it, push it.  A push
\* after push(null) destroys the stream with an error.
StdoutDataForgetsCount(t, i, chunk) ==
    LET k == [t EXCEPT !.buffer = Append(@, chunk),
                       !.nOut = @ + 1]
    IN  IF ~k.destroyed /\ k.rEnded
        THEN StreamDestroy(k, PushAfterEOF(i))
        ELSE [t |-> k, err |-> NoError]

StdoutDataHandler(t, i, chunk) ==
    LET k == [t EXCEPT !.buffer = Append(@, chunk),
                       !.totalLength = @ + Len(chunk),
                       !.nOut = @ + 1]
    IN  IF ~k.destroyed /\ k.rEnded
        THEN StreamDestroy(k, PushAfterEOF(i))
        ELSE [t |-> k, err |-> NoError]

StdoutData(i, chunk) ==
    /\ IsChild(i) /\ MacroOK
    /\ transforms[i].proc # "none"
    /\ ~transforms[i].stdoutEnded
    /\ chunk \in OutputOf(transforms[i])
    /\ LET r == StdoutDataHandler(transforms[i], i, chunk)
           nts == [transforms EXCEPT ![i] = r.t]
       IN  /\ transforms' = nts
           /\ sp' = AfterEmit(sp, nts, i, r.err)
    /\ UNCHANGED <<phase, listening, srcState, accepted, tornDown, host>>

\* The stderr 'data' handler: console.error only.
StderrKept(t, chunk) ==
    [t EXCEPT !.stderrLogged = TRUE,
              !.buffer = Append(@, chunk),
              !.totalLength = @ + Len(chunk)]

StderrDataHandler(t, chunk) == [t EXCEPT !.stderrLogged = TRUE]

StderrData(i, chunk) ==
    /\ IsChild(i) /\ MacroOK
    /\ transforms[i].proc \in {"alive", "exited"}
    /\ transforms' = [transforms EXCEPT ![i] = StderrDataHandler(@, chunk)]
    /\ UNCHANGED <<phase, listening, srcState, accepted, sp, tornDown, host>>

\* The stdout 'end' handler.
StdoutEndHandler(t) ==
    IF ~t.processCompleted
    THEN PushNullAndEnd([t EXCEPT !.stdoutEnded = TRUE,
                                  !.processCompleted = TRUE])
    ELSE [t EXCEPT !.stdoutEnded = TRUE]

StdoutEnd(i) ==
    /\ IsChild(i) /\ MacroOK
    /\ transforms[i].proc # "none"
    /\ ~transforms[i].stdoutEnded
    /\ OutputMayEnd(transforms[i])
    /\ transforms' = [transforms EXCEPT ![i] = StdoutEndHandler(@)]
    /\ UNCHANGED <<phase, listening, srcState, accepted, sp, tornDown, host>>

\* The 'exit' handler.
ExitKeepsTimer(t, i, code) ==
    LET fails == code # 0 /\ ~t.hasError
        k == [t EXCEPT !.proc = "exited", !.exitCode = code,
                       !.reading = FALSE,
                       !.processCompleted = TRUE,
                       !.hasError = @ \/ fails]
    IN  [t |-> PushNullAndEnd(IF fails THEN Unpipe(k) ELSE k),
         err |-> IF fails THEN ExitError(i, code) ELSE NoError]

ExitHandler(t, i, code) ==
    LET fails == code # 0 /\ ~t.hasError
        k == [t EXCEPT !.proc = "exited", !.exitCode = code,
                       !.reading = FALSE,
                       !.processCompleted = TRUE,
                       !.hasError = @ \/ fails,
                       !.timeout = FALSE]
    IN  [t |-> PushNullAndEnd(IF fails THEN Unpipe(k) ELSE k),
         err |-> IF fails THEN ExitError(i, code) ELSE NoError]

ProcExit(i, code) ==
    /\ IsChild(i) /\ MacroOK
    /\ transforms[i].proc = "alive"
    /\ code \in ExitCodes(transforms[i])
    /\ LET r == ExitHandler(transforms[i], i, code)
           nts == [transforms EXCEPT ![i] = r.t]
       IN  /\ transforms' = nts
           /\ sp' = AfterEmit(sp, nts, i, r.err)
    /\ UNCHANGED <<phase, listening, srcState, accepted, tornDown, host>>

\* The 'error' handler of the child process.
ProcErrorLogsOnly(t, i) ==
    [t |-> [t EXCEPT !.errDue = FALSE], err |-> NoError]

ProcErrorHandler(t, i) ==
    IF ~t.processCompleted
    THEN [t |-> [t EXCEPT !.errDue = FALSE, !.hasError = TRUE],
          err |-> SpawnError(i)]
    ELSE [t |-> [t EXCEPT !.errDue = FALSE], err |-> NoError]

\* The child emits 'error'.  Before processStream has subscribed, only the
\* logging listener of the BufferTransform constructor hears what the handler
\* emits; afterwards the coordinator's listener does, and the pipe lets go.
ProcError(i) ==
    /\ transforms[i].errDue
    /\ LET r == ProcErrorHandler(transforms[i], i)
           heard == listening /\ r.err # NoError
           nts == [transforms EXCEPT ![i] =
                        IF heard THEN Unpipe(r.t) ELSE r.t]
       IN  /\ transforms' = nts
           /\ sp' = IF heard THEN AfterEmit(sp, nts, i, r.err) ELSE sp
    /\ UNCHANGED <<phase, listening, srcState, accepted, tornDown, host>>

\* The timeout callback of the constructor: this.destroy(new Error(...)).
TimeoutCallback(t, i) ==
    StreamDestroy([t EXCEPT !.timeout = FALSE, !.timedOut = TRUE],
                  TimeoutError(i))

Timeout(i) ==
    /\ IsChild(i) /\ MacroOK
    /\ transforms[i].timeout
    /\ LET r == TimeoutCallback(transforms[i], i)
           nts == [transforms EXCEPT ![i] = r.t]
       IN  /\ transforms' = nts
           /\ sp' = AfterEmit(sp, nts, i, r.err)
    /\ UNCHANGED <<phase, listening, srcState, accepted, tornDown, host>>

----------------------------------------------------------------------------
SomeSourceData == \E chunk \in {SrcChunk(Len(accepted) + 1)} : SourceData(chunk)
SomeBufferWrite == \E i \in Indices : BufferWrite(i)
SomeChildWrite == \E i \in Indices, canWrite \in BOOLEAN : ChildWrite(i, canWrite)
SomeFinish == \E i \in Indices : Finish(i)
SomeEnd == \E i \in Indices : End(i)
SomeProcCloseStdin == \E i \in Indices : ProcCloseStdin(i)
SomeStdinDrain == \E i \in Indices : StdinDrain(i)
SomeStdinFlushed == \E i \in Indices : StdinFlushed(i)
SomeStdinError == \E i \in Indices, code \in {"EPIPE", "OTHER"} : StdinError(i, code)
SomeStdoutData ==
    \E i \in Indices : \E chunk \in OutputOf(transforms[i]) : StdoutData(i, chunk)
SomeStderrData == \E i \in Indices, chunk \in OutChunks : StderrData(i, chunk)
SomeStdoutEnd == \E i \in Indices : StdoutEnd(i)
SomeProcExit ==
    \E i \in Indices, code \in OwnExitCodes \cup {SignalCode} : ProcExit(i, code)
SomeTimeout == \E i \in Indices : Timeout(i)

Next ==
    \/ ProcessVideoFile
    \/ NewStreamProcessor
    \/ ProcessStream
    \/ Teardown
    \/ SomeSourceData
    \/ SourceEnd
    \/ SourceError
    \/ SomeBufferWrite
    \/ SomeChildWrite
    \/ SomeFinish
    \/ SomeEnd
    \/ SomeProcCloseStdin
    \/ SomeStdinDrain
    \/ SomeStdinFlushed
    \/ SomeStdinError
    \/ SomeStdoutData
    \/ SomeStderrData
    \/ SomeStdoutEnd
    \/ SomeProcExit
    \/ SomeTimeout

Spec == Init /\ [][Next]_vars

\* The event loop delivers every event that stays deliverable: pending pipe
\* deliveries and stream events, and, as the environment's part, the end or
\* failure of the source and the exit or the timeout of every process.
LiveSpec == Spec /\ WF_vars(Next)

\* Runs that may also start from a list holding a sink whose process could
\* not be started, or two sinks of one class.
ExtConfigs ==
    Configs \cup
    { <<NewBufferTransform, NewFailedSpawnTransform>>,
      <<NewBufferTransform, NewUnspawnedTransform>>,
      <<NewBufferTransform, NewBufferTransform>> }

InitExt ==
    /\ transforms \in ExtConfigs
    /\ phase = "created"
    /\ listening = FALSE
    /\ srcState = "open"
    /\ accepted = <<>>
    /\ sp = NewProcessor
    /\ tornDown = FALSE
    /\ host = NewHost

SomeProcError == \E i \in Indices : ProcError(i)

NextExt ==
    \/ Next
    \/ SomeProcError

ExtSpec == InitExt /\ [][NextExt]_vars

\* The event loop runs a pipe's pending delivery: a chunk that a
\* BufferTransform can take is eventually handed to it.
FairSpec == Spec /\ WF_vars(SomeBufferWrite)

----------------------------------------------------------------------------
\* Properties

Reason == sp.promise.reason

\* The transform has reported completion: its 'finish' or 'end' was emitted.
Reported(t) == t.finishEmitted \/ t.endEmitted

AllReported == \A i \in Indices : Reported(transforms[i])

Settled == Outcome \in {"resolved", "rejected"}

\* C1: the result is delivered if and only if every sink has been recorded
\* complete and every sink's result is non-empty.  A delivered result has an
\* entry for every sink, every entry non-empty, and every sink had reported
\* completion; and the step that records the last missing sink of a pending
\* run delivers the result exactly when no sink's buffer is empty.
C1_DeliveredIffAllComplete ==
    /\ [](Outcome = "resolved" =>
            /\ AllReported
            /\ allCompleted(sp, transforms)
            /\ \A i \in Indices :
                /\ transforms[i].cls \in DOMAIN sp.promise.value
                /\ Len(sp.promise.value[transforms[i].cls]) > 0)
    /\ [][(Outcome = "pending" /\ allCompleted(sp', transforms'))
            => (Outcome' = "resolved" <=> FirstEmpty(transforms') = 0)]_vars

C1_Witness ==
    /\ Outcome = "resolved"
    /\ Len(transforms) = 2
    /\ transforms[2].endEmitted /\ ~transforms[2].finishEmitted
    /\ transforms[1].finishEmitted

\* C2: once the run has been resolved or rejected, no later event changes the
\* delivered outcome.
C2_SettledOnce ==
    [][Settled => sp'.promise = sp.promise]_vars

\* A rejected run in which every sink later completed with a non-empty buffer,
\* and a resolved run whose process later reported a failing exit.
C2_Witness ==
    /\ Len(transforms) = 2
    /\ \/ /\ Outcome = "rejected" /\ Reason.kind = "exit"
          /\ allCompleted(sp, transforms) /\ FirstEmpty(transforms) = 0
       \/ /\ Outcome = "resolved"
          /\ transforms[2].proc = "exited" /\ transforms[2].exitCode # 0
          /\ transforms[2].hasError

\* C3: a fatal failure event (a source error, or a sink error that is not a
\* broken pipe) that arrives while the run is pending rejects the run with that
\* error, whatever has completed; a rejected run stays rejected with the same
\* error.
C3_FirstFailureWins ==
    /\ [][Outcome = "pending" =>
            /\ SourceError =>
                 (Outcome' = "rejected" /\ Reason' = SourceErr)
            /\ \A i \in Indices :
                /\ Timeout(i) =>
                     (Outcome' = "rejected" /\ Reason' = TimeoutError(i))
                /\ \A code \in {1, SignalCode} :
                     (ProcExit(i, code) /\ ~transforms[i].hasError) =>
                        (Outcome' = "rejected" /\ Reason' = ExitError(i, code))
                /\ (StdinError(i, "OTHER") /\ ~transforms[i].processCompleted)
                     => (Outcome' = "rejected" /\ Reason' = StdinErr(i))
                /\ \A chunk \in OutputOf(transforms[i]) :
                     (StdoutData(i, chunk) /\ transforms[i].rEnded
                        /\ ~transforms[i].destroyed) =>
                        (Outcome' = "rejected" /\ Reason' = PushAfterEOF(i))]_vars
    /\ [][Outcome = "rejected" => sp'.promise = sp.promise]_vars

\* A run rejected with the source's error after a sink had completed, whose
\* process reported a failing exit afterwards.
C3_Witness ==
    /\ Outcome = "rejected" /\ Reason = SourceErr
    /\ sp.completedTransforms # {}
    /\ \E i \in Indices : transforms[i].hasError

\* C4 (as claimed): when the process of a Process-Pipe sink exits with a
\* nonzero code of its own and no broken pipe was tolerated before, the run
\* does not resolve successfully.
C4_Original ==
    \A i \in Indices :
        (transforms[i].proc = "exited" /\ transforms[i].exitCode = 1
            /\ ~transforms[i].sawEpipe)
        => Outcome # "resolved"

\* C5 (as claimed): when the process stopped reading its input early (broken
\* pipe), then wrote non-empty output and exited with code 0, and nothing
\* else failed (the source ended after at least one chunk, no timeout, no
\* other stdin error), a settled run has succeeded and the Process-Pipe
\* sink's entry is exactly the bytes the process wrote.
C5_Original ==
    \A i \in Indices :
        (/\ transforms[i].kind = "child"
         /\ transforms[i].sawEpipe
         /\ transforms[i].proc = "exited" /\ transforms[i].exitCode = 0
         /\ transforms[i].stdoutEnded /\ transforms[i].buffer # <<>>
         /\ ~transforms[i].hasError /\ ~transforms[i].timedOut
         /\ srcState = "ended" /\ accepted # <<>>
         /\ Settled)
        => /\ Outcome = "resolved"
           /\ sp.promise.value[transforms[i].cls] = Flatten(transforms[i].buffer)

\* C6: when the timeout callback runs while the process has not exited, the
\* process is killed and the run is rejected with the timeout error; the exit
\* error of the killed process does not replace it.
C6_TimeoutFailsRun ==
    /\ [][\A i \in Indices :
            (Timeout(i) /\ transforms[i].proc = "alive") =>
                /\ transforms'[i].killed
                /\ ~transforms'[i].timeout
                /\ Outcome' = "rejected"
                /\ Reason' = TimeoutError(i)]_vars
    /\ [][Reason.kind = "timeout" => sp'.promise = sp.promise]_vars

C6_Witness ==
    /\ Outcome = "rejected" /\ Reason.kind = "timeout"
    /\ \E i \in Indices :
        /\ transforms[i].timedOut /\ transforms[i].killed
        /\ transforms[i].proc = "exited"
        /\ transforms[i].exitCode = SignalCode
        /\ transforms[i].hasError

\* C7: with zero transforms the constructor throws: processStream never runs,
\* no listener is attached to the source and no chunk is consumed from it.
C7_ZeroSinksFailFirst ==
    Len(transforms) = 0 =>
        /\ phase \in {"created", "threw"}
        /\ ~listening
        /\ accepted = <<>>
        /\ Outcome = "none"

C7_Witness ==
    Len(transforms) = 0 /\ phase = "threw" /\ tornDown

\* C8: a BufferTransform that has completed holds exactly the chunks the
\* source produced, in order, and getBuffer returns their concatenation.
C8_BufferIsConcatenation ==
    \A i \in Indices :
        (transforms[i].kind = "buffer" /\ Reported(transforms[i])) =>
            /\ transforms[i].buffer = accepted
            /\ getBuffer(transforms[i]) = Flatten(accepted)

C8_Witness ==
    \E i \in Indices :
        /\ transforms[i].kind = "buffer" /\ Reported(transforms[i])
        /\ Len(accepted) >= 2
        /\ Len(getBuffer(transforms[i])) >= 3

\* C9 (as claimed): when the run has resolved, every sink has consumed as many
\* bytes as the Distributor accepted from the source.
C9_Original ==
    Outcome = "resolved" =>
        \A i \in Indices :
            SumLen(transforms[i].consumed) = SumLen(accepted)

\* C10: every sink is presented the source's chunks in source order: what a
\* sink has consumed followed by what still waits for it is the source's
\* sequence, a BufferTransform retains what it consumed, and what was written
\* to the process's input is a prefix of what its sink consumed.
C10_SourceOrder ==
    \A i \in Indices :
        /\ transforms[i].consumed \o transforms[i].passQ = accepted
        /\ transforms[i].kind = "buffer" =>
                transforms[i].buffer = transforms[i].consumed
        /\ IsPrefix(transforms[i].stdinWritten, transforms[i].consumed)

C10_Witness ==
    /\ Len(transforms) = 2
    /\ Len(transforms[1].consumed) >= 2
    /\ Len(transforms[2].stdinWritten) >= 2
    /\ transforms[2].passQ = <<>>

\* C11 (as claimed): with an accumulating sink beside a sink whose command
\* copies its input to its output and exits with code 0, a run whose source
\* delivered its chunks and ended, and in which no timeout fired and no write
\* to the command failed, settles as a success in which both entries are the
\* concatenation of the source's chunks.
C11_Original ==
    (/\ Len(transforms) = 2 /\ transforms[2].echo
     /\ Settled /\ srcState = "ended" /\ accepted # <<>>
     /\ ~transforms[2].timedOut /\ transforms[2].stdin # "broken")
    => /\ Outcome = "resolved"
       /\ sp.promise.value[transforms[1].cls] = Flatten(accepted)
       /\ sp.promise.value[transforms[2].cls] = Flatten(accepted)

\* C12: when the last sink of a pending run is recorded complete and some
\* sink's buffer is empty, the run is rejected with the empty-result error of
\* the first such sink and no result is delivered, then or later.
C12_EmptyResultFails ==
    /\ [][(/\ Outcome = "pending"
           /\ allCompleted(sp', transforms')
           /\ FirstEmpty(transforms') # 0)
          => /\ Outcome' = "rejected"
             /\ Reason' = EmptyError(FirstEmpty(transforms'))
             /\ sp'.promise.value = NoResult]_vars
    /\ [](Reason.kind = "empty" =>
            /\ Outcome = "rejected"
            /\ sp.promise.value = NoResult
            /\ allCompleted(sp, transforms))

\* An accumulating sink that received no chunk before the end of the input.
C12_Witness ==
    /\ Outcome = "rejected" /\ Reason = EmptyError(1)
    /\ transforms[1].kind = "buffer" /\ transforms[1].finishEmitted
    /\ accepted = <<>> /\ srcState = "ended"

\* C13 (as claimed): the result of a successful run has exactly one entry
\* per sink, and the entry of every sink is the non-empty byte sequence that
\* sink finally holds.
C13_Original ==
    Outcome = "resolved" =>
        /\ DOMAIN sp.promise.value = {transforms[i].cls : i \in Indices}
        /\ Cardinality(DOMAIN sp.promise.value) = Len(transforms)
        /\ \A i \in Indices :
            /\ Len(sp.promise.value[transforms[i].cls]) > 0
            /\ sp.promise.value[transforms[i].cls] = getBuffer(transforms[i])

\* C14: an error of the source that arrives while the run is pending rejects
\* the run with that error; the finally block of processVideo then destroys
\* every sink: it is due as long as it has not run, and once it has run every
\* sink is destroyed, with its timer cleared and its process killed if it was
\* still alive.
C14_SourceErrorFatal ==
    /\ [][(Outcome = "pending" /\ SourceError)
            => (Outcome' = "rejected" /\ Reason' = SourceErr)]_vars
    /\ [](Reason = SourceErr =>
            /\ Outcome = "rejected"
            /\ tornDown \/ ENABLED Teardown
            /\ tornDown =>
                 \A i \in Indices :
                    /\ transforms[i].destroyed
                    /\ ~transforms[i].piped
                    /\ ~transforms[i].timeout
                    /\ transforms[i].proc = "alive" => transforms[i].killed)

\* The source failed while the process was running: the sinks were destroyed
\* and the process was killed.
C14_Witness ==
    /\ Reason = SourceErr /\ tornDown
    /\ Len(transforms) = 2
    /\ transforms[1].destroyed /\ transforms[2].destroyed
    /\ transforms[2].killed /\ ~transforms[2].timedOut

\* C15: every settled run is torn down (the finally block is due until it has
\* run, also when the constructor threw), and after it every sink is
\* destroyed: no timer is armed, no timeout fires any more, and every process
\* has exited or has been killed.
C15_AllDestroyedAtEnd ==
    /\ []((Settled \/ phase = "threw") => (tornDown \/ ENABLED Teardown))
    /\ [](tornDown =>
            \A i \in Indices :
                /\ transforms[i].destroyed
                /\ ~transforms[i].timeout
                /\ ~ENABLED Timeout(i)
                /\ transforms[i].kind = "child" =>
                        (transforms[i].proc = "exited" \/ transforms[i].killed))
    /\ [][tornDown => tornDown']_vars

\* A successful run whose process was still running when the run ended.
C15_Witness ==
    /\ tornDown /\ Outcome = "resolved"
    /\ \E i \in Indices :
        /\ transforms[i].kind = "child" /\ transforms[i].destroyed
        /\ transforms[i].proc = "alive" /\ transforms[i].killed

\* The errors a destroy() of sink i may be called with.
DestroyErrors(i) ==
    {NoError, EpipeError(i), TimeoutError(i), PushAfterEOF(i),
     UnavailableError(i)}

\* C16: destroy(e) on a Process-Pipe sink, in every reachable state of the
\* sink and for every error e: afterwards the timer is cleared and a process
\* that was alive is killed; a broken-pipe error is not raised, any other
\* error of a first destroy is raised as it is; a second destroy changes
\* nothing and raises nothing.
C16_DestroyContract ==
    \A i \in Indices :
        transforms[i].kind = "child" =>
            \A e \in DestroyErrors(i) :
                LET t == transforms[i]
                    r == StreamDestroy(t, e)
                IN  /\ r.t.destroyed
                    /\ ~r.t.timeout
                    /\ t.proc = "alive" => r.t.killed
                    /\ e.kind = "EPIPE" => r.err = NoError
                    /\ (~t.destroyed /\ e.kind # "EPIPE") => r.err = e
                    /\ \A e2 \in DestroyErrors(i) :
                            StreamDestroy(r.t, e2) = [t |-> r.t, err |-> NoError]

\* The timeout destroyed the sink and killed its process, and the finally
\* block destroyed it a second time.
C16_Witness ==
    /\ tornDown /\ Reason.kind = "timeout"
    /\ \E i \in Indices :
        /\ transforms[i].timedOut /\ transforms[i].destroyed
        /\ transforms[i].proc = "alive" /\ transforms[i].killed
        /\ ~transforms[i].timeout

OutputFiles == {"original.mp4", "thumbnail.jpg"}

\* C17: the command writes files only after the run has resolved; it ends
\* with status 0 only with both files written from the run's result; every
\* failure (missing input, rejected run or throwing constructor, failing file
\* operation) ends it with a diagnostic and status 1, and after a failed run
\* no file is written; the command's end is final.
C17_HostCommand ==
    /\ [](DOMAIN host.files # {} => (Outcome = "resolved" /\ tornDown))
    /\ [](host.status = "0" =>
            /\ Outcome = "resolved" /\ ~host.diagnostic
            /\ DOMAIN host.files = OutputFiles
            /\ host.files["original.mp4"] = sp.promise.value["BufferTransform"]
            /\ host.files["thumbnail.jpg"] = sp.promise.value["FFmpegTransform"])
    /\ [](host.status = "1" => host.diagnostic)
    /\ [](tornDown => host.stage = "done" /\ host.status \in {"0", "1"})
    /\ []((tornDown /\ Outcome # "resolved") =>
            (host.status = "1" /\ DOMAIN host.files = {}))
    /\ []((host.stage = "done" /\ ~tornDown) =>
            (host.status = "1" /\ phase = "created" /\ DOMAIN host.files = {}))
    /\ [][host.stage = "done" => host' = host]_vars

\* The command succeeded after a run of several chunks: both files exist.
C17_Witness ==
    /\ host.status = "0" /\ DOMAIN host.files = OutputFiles
    /\ Len(accepted) >= 2
    /\ Len(host.files["original.mp4"]) >= 3

\* C18 (as claimed): a Process-Pipe sink is recorded as completed only when
\* its process has exited.
C18_Original ==
    \A i \in Indices :
        (transforms[i].kind = "child"
            /\ transforms[i].cls \in sp.completedTransforms)
        => transforms[i].proc = "exited"

\* C19 (as claimed): while the run is pending, the Distributor takes the next
\* chunk from the source only when no sink's PassThrough has answered
\* 'cannot accept more' without having drained since.
C19_Original ==
    [][(Outcome = "pending" /\ accepted' # accepted)
        => \A i \in Indices : ~passNeedsDrain(transforms[i])]_vars

\* A chunk waits in the sink's PassThrough and the sink itself is able to
\* take it.
Waiting(t) ==
    /\ t.piped /\ ~t.destroyed /\ ~t.finishEmitted /\ ~t.inflight
    /\ t.passQ # <<>>

\* The Process-Pipe sink waits for 'drain' of its process's input.
Stalled(t) == t.kind = "child" /\ t.inflight /\ ~t.destroyed

\* C20: while a Process-Pipe sink waits for 'drain', a chunk waiting for
\* another sink can be delivered to it at once, the source's next chunk is
\* accepted as soon as the waiting deliveries are done, and the chunk waiting
\* for the accumulating sink is eventually delivered.
C20_StallIsLocal ==
    /\ [](\A i \in Indices : \A j \in Indices \ {i} :
            (Running /\ Stalled(transforms[i]) /\ Waiting(transforms[j])
                /\ transforms[j].kind = "buffer")
            => ENABLED BufferWrite(j))
    /\ [](\A i \in Indices :
            (Stalled(transforms[i]) /\ MacroOK /\ srcState = "open"
                /\ Len(accepted) < MaxChunks)
            => ENABLED SomeSourceData)
    /\ ((Len(transforms) = 2 /\ Stalled(transforms[2])
            /\ Waiting(transforms[1]))
         ~> (Len(transforms) = 2 /\ ~Waiting(transforms[1])))

\* The accumulating sink has consumed three chunks while the Process-Pipe
\* sink still waits for the 'drain' of its first.
C20_Witness ==
    /\ Len(transforms) = 2
    /\ Stalled(transforms[2]) /\ Len(transforms[2].consumed) = 1
    /\ Len(transforms[1].consumed) = 3
    /\ Len(transforms[2].passQ) = 2

\* C21: a chunk whose stdin.write answered false is not acknowledged, and
\* while it is suspended the sink takes no further chunk and writes nothing
\* more to the process; only the 'drain' callback (or the destruction of the
\* sink) lifts the suspension, and 'drain' lifts it in the same step, after
\* which the next queued chunk can be taken without any other event.
C21_SuspendUntilDrain ==
    [][\A i \in Indices :
        LET t == transforms[i]
            u == transforms'[i]
        IN  /\ (ChildWrite(i, FALSE)
                    /\ Len(u.stdinWritten) > Len(t.stdinWritten))
                => u.inflight /\ ~CanTake(u) /\ ~FinishDue(u)
            /\ t.inflight
                => /\ u.stdinWritten = t.stdinWritten
                   /\ u.consumed = t.consumed
                   /\ u.passQ # <<>> => Head(u.passQ) = Head(t.passQ \o u.passQ)
            /\ (t.inflight /\ ~u.inflight)
                => StdinDrain(i) \/ (u.destroyed /\ ~t.destroyed)
            /\ StdinDrain(i)
                => /\ ~u.inflight
                   /\ (t.piped /\ t.passQ # <<>>) => CanTake(u)
    ]_vars

\* A second chunk was suspended on a saturated pipe while a third waits.
C21_Witness ==
    \E i \in Indices :
        /\ transforms[i].kind = "child"
        /\ transforms[i].inflight
        /\ transforms[i].stdin = "open" /\ transforms[i].reading
        /\ Len(transforms[i].stdinWritten) = 2
        /\ Len(transforms[i].passQ) = 1
        /\ Outcome = "pending"

\* C22: the first of a sink's 'finish' and 'end' sets its completion token
\* and the sink's own finished flag; the later one changes nothing of the
\* coordinator and raises no failure; a token or flag once set stays set.
C22_TokenSetOnce ==
    [][\A i \in Indices :
        LET t == transforms[i]
            u == transforms'[i]
        IN  /\ (Finish(i) \/ End(i))
                => /\ t.cls \in sp'.completedTransforms
                   /\ u.isFinished
                   /\ t.cls \in sp.completedTransforms => sp' = sp
            /\ t.cls \in sp.completedTransforms
                => t.cls \in sp'.completedTransforms
            /\ t.isFinished => u.isFinished
    ]_vars

\* Both notifications of a sink have been delivered while the run waits for
\* another sink.
C22_Witness ==
    /\ Len(transforms) = 2
    /\ transforms[1].finishEmitted /\ transforms[1].endEmitted
    /\ sp.completedTransforms = {transforms[1].cls}
    /\ Outcome = "pending"

\* C23: during a run, getBuffer of a sink that has not completed, or that
\* retains no byte, fails; of any other sink it returns the concatenation of
\* the retained chunks.
C23_Original ==
    Running =>
        \A i \in Indices :
            LET t == transforms[i]
            IN  IF ~isComplete(t) \/ t.totalLength = 0
                THEN getBufferFails(t)
                ELSE ~getBufferFails(t) /\ getBuffer(t) = Flatten(t.buffer)

\* C24: while the run is undecided, a failure of the process's input pipe
\* other than a broken pipe is recorded by the sink as its failure and
\* rejects the run with that failure.
C24_Original ==
    [][\A i \in Indices :
        (Outcome = "pending" /\ StdinError(i, "OTHER"))
            => /\ transforms'[i].hasError
               /\ sp'.promise.state = "rejected"
               /\ sp'.promise.reason = StdinErr(i)
    ]_vars

\* C25: once the sink has seen a broken pipe, or its process is marked
\* completed, every chunk it is handed afterwards is acknowledged at once,
\* nothing is written to the process and no failure is raised.
C25_Original ==
    [][\A i \in Indices : \A canWrite \in BOOLEAN :
        LET t == transforms[i]
            u == transforms'[i]
        IN  (ChildWrite(i, canWrite) /\ (t.sawEpipe \/ t.processCompleted))
                => /\ u.consumed = Append(t.consumed, Head(t.passQ))
                   /\ ~u.inflight
                   /\ u.stdinWritten = t.stdinWritten
                   /\ ~u.destroyed
                   /\ sp' = sp
    ]_vars

\* A failure is on record for the sink: an emitted failure, a timeout, or a
\* broken pipe that was tolerated.
FailureRecorded(t) == t.hasError \/ t.timedOut \/ t.sawEpipe

\* C26: before the run is torn down, the exit of a process whose sink has a
\* failure on record raises nothing (the sink records no new failure and the
\* coordinator is left as it was); a nonzero exit with no failure on record
\* fails an undecided run with the exit failure.
C26_Original ==
    [][\A i \in Indices : \A code \in OwnExitCodes \cup {SignalCode} :
        LET t == transforms[i]
            u == transforms'[i]
        IN  (ProcExit(i, code) /\ ~tornDown)
                => /\ FailureRecorded(t)
                        => u.hasError = t.hasError /\ sp' = sp
                   /\ (~FailureRecorded(t) /\ code # 0 /\ Outcome = "pending")
                        => /\ u.hasError
                           /\ sp'.promise.state = "rejected"
                           /\ sp'.promise.reason = ExitError(i, code)
    ]_vars

\* C27: once a sink's process has exited (with any code), or the sink has
\* been destroyed, its timer is not armed, the timeout callback does not run
\* and no timeout is recorded for the sink from then on.
C27_TimerCancelled ==
    [][\A i \in Indices :
        LET t == transforms[i]
            u == transforms'[i]
        IN  /\ (\E code \in OwnExitCodes \cup {SignalCode} :
                    ProcExit(i, code)) => ~u.timeout
            /\ u.destroyed => ~u.timeout
            /\ (t.proc = "exited" \/ t.destroyed)
                => /\ ~t.timeout /\ ~ENABLED Timeout(i)
                   /\ ~Timeout(i)
                   /\ ~u.timeout
                   /\ u.timedOut = t.timedOut
    ]_vars

\* A process has exited by itself, with a failure code, before its sink was
\* destroyed and before any timeout.
C27_Witness ==
    \E i \in Indices :
        /\ transforms[i].proc = "exited" /\ transforms[i].exitCode = 1
        /\ ~transforms[i].destroyed /\ ~transforms[i].killed
        /\ ~transforms[i].timedOut /\ ~transforms[i].timeout

\* C28: the accumulation of a Process-Pipe sink holds the chunks of its
\* stdout 'data' events, each once and in the order of arrival, and nothing
\* else: a 'data' event appends its chunk, no other step changes the
\* accumulation, and a chunk written to the process's input is not added.
C28_ResultIsProcessOutput ==
    [][\A i \in Indices :
        LET t == transforms[i]
            u == transforms'[i]
        IN  t.kind = "child"
            => /\ Len(u.buffer) = u.nOut
               /\ u.totalLength = SumLen(u.buffer)
               /\ getBuffer(u) = Flatten(u.buffer)
               /\ ~t.echo => \A k \in 1..Len(u.buffer) : u.buffer[k] \in OutChunks
               /\ \A chunk \in OutputOf(t) :
                    StdoutData(i, chunk) => u.buffer = Append(t.buffer, chunk)
               /\ (\A chunk \in OutputOf(t) : ~StdoutData(i, chunk))
                    => u.buffer = t.buffer
               /\ \A canWrite \in BOOLEAN :
                    ChildWrite(i, canWrite)
                        => u.buffer = t.buffer /\ u.totalLength = t.totalLength
    ]_vars

\* A sink that has forwarded input to ffmpeg and read two chunks of output.
C28_Witness ==
    \E i \in Indices :
        /\ transforms[i].kind = "child" /\ ~transforms[i].echo
        /\ Len(transforms[i].stdinWritten) >= 1
        /\ Len(transforms[i].buffer) = 2
        /\ getBuffer(transforms[i]) = <<7, 7>>

\* C29: a stderr 'data' event changes nothing but the log: the sink's
\* accumulation, length counter, failure and completion flags and stream
\* state, every other sink, the completion set, the run's outcome and the
\* host are as before.
C29_StderrOnlyLogged ==
    [][\A i \in Indices : \A chunk \in OutChunks :
        StderrData(i, chunk)
            => /\ transforms'[i].stderrLogged
               /\ [transforms'[i] EXCEPT !.stderrLogged = FALSE]
                    = [transforms[i] EXCEPT !.stderrLogged = FALSE]
               /\ \A j \in Indices \ {i} : transforms'[j] = transforms[j]
               /\ sp' = sp /\ host' = host
               /\ <<phase, listening, srcState, accepted, tornDown>>'
                    = <<phase, listening, srcState, accepted, tornDown>>
    ]_vars

\* ffmpeg's diagnostics were logged during a run that went on to succeed
\* with output read from its stdout.
C29_Witness ==
    \E i \in Indices :
        /\ transforms[i].stderrLogged
        /\ transforms[i].buffer # <<>>
        /\ ~transforms[i].hasError
        /\ Outcome = "resolved"

\* C30: the process handle only moves forward.  An exited process stays
\* exited with its code, processCompleted and hasError stay set once set,
\* from then on nothing more is written to the process's input, and the
\* input pipe, once it has left the open state, never returns to it.
C30_HandleMovesForward ==
    [][\A i \in Indices :
        LET t == transforms[i]
            u == transforms'[i]
        IN  t.kind = "child"
            => /\ t.processCompleted => u.processCompleted
               /\ t.hasError => u.hasError
               /\ t.killed => u.killed
               /\ t.proc = "exited"
                    => u.proc = "exited" /\ u.exitCode = t.exitCode
               /\ u.proc = "exited" => u.processCompleted
               /\ (t.processCompleted \/ t.hasError)
                    => u.stdinWritten = t.stdinWritten
               /\ t.stdin = "ended" => u.stdin \in {"ended", "broken"}
               /\ t.stdin = "broken" => u.stdin = "broken"
               /\ u.stdin = "open" => t.stdin = "open"
    ]_vars

\* A chunk is handed to the sink after its process was marked completed
\* while the input pipe is still open.
C30_Witness ==
    \E i \in Indices :
        /\ transforms[i].kind = "child"
        /\ transforms[i].processCompleted
        /\ transforms[i].stdin = "open"
        /\ CanTake(transforms[i])
        /\ Len(transforms[i].stdinWritten) >= 1

\* C31: the PassThrough of every sink is ended by the source's 'end' and by
\* nothing else, after every accepted chunk was written to it and with no
\* write after it.  When the end of input reaches a Process-Pipe sink whose
\* process is running, the process's input pipe is closed; when the process
\* is marked completed or was killed, the pipe is left as it is.
C31_EndOfInput ==
    [][/\ SourceEnd
            => \A i \in Indices :
                /\ transforms'[i].passEnded
                /\ transforms'[i].consumed \o transforms'[i].passQ = accepted
       /\ \A i \in Indices :
            LET t == transforms[i]
                u == transforms'[i]
            IN  /\ (~t.passEnded /\ u.passEnded) => SourceEnd
                /\ t.passEnded
                    => /\ u.passEnded
                       /\ u.consumed \o u.passQ = t.consumed \o t.passQ
                /\ (Finish(i) /\ t.kind = "child")
                    => IF t.proc = "alive" /\ ~t.killed /\ ~t.processCompleted
                       THEN /\ u.stdin # "open"
                            /\ t.stdin = "open" => u.stdin = "ended"
                       ELSE u.stdin = t.stdin
                /\ (t.kind = "child" /\ (t.processCompleted \/ t.killed))
                    => /\ ChildProcessTransform_flush(t).stdin = t.stdin
                       /\ ~ChildProcessTransform_flush(t).flushCb
    ]_vars

\* The source has ended after a chunk, and the end of input has closed the
\* input pipe of a process that is still running.
C31_Witness ==
    \E i \in Indices :
        /\ transforms[i].kind = "child"
        /\ transforms[i].passEnded /\ transforms[i].finishEmitted
        /\ transforms[i].proc = "alive" /\ ~transforms[i].killed
        /\ transforms[i].stdin = "ended"
        /\ Len(transforms[i].stdinWritten) >= 1

\* The process of the sink could not be started.
SpawnFailed(t) == t.kind = "child" /\ t.proc \in {"none", "unspawned"}

\* C32: a run with a sink whose process could not be started never resolves.
\* The child's 'error' event before completion records the failure on the
\* sink and, once the coordinator listens, rejects an undecided run with it;
\* a failure raised before the coordinator listened is still on record, the
\* first chunk handed to that sink rejects the undecided run, and the run is
\* rejected at the latest when the source is over and no event is pending.
C32_SpawnFailureFatal ==
    [][\A i \in Indices :
        LET t == transforms[i]
            u == transforms'[i]
        IN  /\ SpawnFailed(u) => sp'.promise.state # "resolved"
            /\ (/\ SpawnFailed(t) /\ Running /\ srcState # "open"
                 /\ \A j \in Indices :
                        /\ ~CanTake(transforms[j]) /\ ~FinishDue(transforms[j])
                        /\ ~EndDue(transforms[j]) /\ ~transforms[j].errDue
                        /\ ~transforms[j].flushCb)
                => Outcome = "rejected"
            /\ (ProcError(i) /\ ~t.processCompleted)
                => /\ u.hasError
                   /\ (listening /\ Outcome = "pending")
                        => /\ sp'.promise.state = "rejected"
                           /\ sp'.promise.reason = SpawnError(i)
            /\ (SpawnFailed(t) /\ ~t.errDue) => t.hasError
            /\ \A canWrite \in BOOLEAN :
                (ChildWrite(i, canWrite) /\ SpawnFailed(t)
                        /\ ~t.processCompleted /\ Outcome = "pending")
                    => /\ sp'.promise.state = "rejected"
                       /\ sp'.promise.reason = UnavailableError(i)
                       /\ u.stdinWritten = t.stdinWritten
    ]_vars

\* The child's 'error' was emitted before processStream subscribed, and the
\* run was then rejected by the first chunk handed to the sink.
C32_Witness ==
    \E i \in Indices :
        /\ transforms[i].proc = "unspawned"
        /\ ~transforms[i].errDue /\ transforms[i].hasError
        /\ Outcome = "rejected"
        /\ sp.promise.reason = UnavailableError(i)

\* C33: a run resolves only when every sink of its list has emitted
\* 'finish' or 'end' itself, and its result then has one entry for each sink
\* of the list.
C33_Original ==
    Outcome = "resolved"
        => /\ \A j \in Indices :
                transforms[j].finishEmitted \/ transforms[j].endEmitted
           /\ Cardinality(DOMAIN sp.promise.value) = Len(transforms)

\* C34: every run that was started settles: from processStream on, the
\* promise is eventually resolved or rejected.
C34_RunSettles == Running ~> Outcome # "pending"

\* A run has resolved although the process exited while a chunk was
\* suspended on a saturated input pipe.
C34_Witness ==
    \E i \in Indices :
        /\ transforms[i].kind = "child"
        /\ transforms[i].inflight /\ transforms[i].proc = "exited"
        /\ ~transforms[i].finishEmitted /\ transforms[i].endEmitted
        /\ Outcome = "resolved"

\* C35: the coordinator's 'error' listener, given a broken-pipe error of a
\* sink in any state of a run: the sink's token is in the completion set
\* afterwards, a settled run stays as it was, an undecided run is not
\* rejected with the broken-pipe error, and it is decided exactly as the
\* completion check decides it (resolved when all sinks are then complete
\* and non-empty, rejected for an empty result, undecided otherwise).
C35_EpipeIsCompletion ==
    Running =>
        \A i \in Indices :
            LET e == EpipeError(i)
                s2 == onError(sp, transforms, i, e)
                done == \A j \in Indices :
                            transforms[j].cls \in
                                sp.completedTransforms \cup {transforms[i].cls}
            IN  /\ transforms[i].cls \in s2.completedTransforms
                /\ s2.completedTransforms
                    = sp.completedTransforms \cup {transforms[i].cls}
                /\ s2.promise.reason # e
                /\ Outcome # "pending" => s2.promise = sp.promise
                /\ (Outcome = "pending" /\ ~done) => s2.promise = sp.promise
                /\ (Outcome = "pending" /\ done)
                    => IF FirstEmpty(transforms) = 0
                       THEN /\ s2.promise.state = "resolved"
                            /\ s2.promise.value = CollectResult(transforms)
                       ELSE /\ s2.promise.state = "rejected"
                            /\ s2.promise.reason
                                = EmptyError(FirstEmpty(transforms))

\* An undecided run that a broken-pipe error of its Process-Pipe sink would
\* complete and resolve.
C35_Witness ==
    /\ Running /\ Outcome = "pending" /\ Len(transforms) = 2
    /\ transforms[2].kind = "child"
    /\ transforms[2].cls \notin sp.completedTransforms
    /\ onError(sp, transforms, 2, EpipeError(2)).promise.state = "resolved"

\* C36: once processCompleted is set, the handlers of the child's 'error'
\* event and of a non-EPIPE 'error' of its input pipe emit nothing and leave
\* hasError as it is; such an event changes neither the failure flag of the
\* sink nor anything of the coordinator.
C36_LateErrorsSuppressed ==
    [][\A i \in Indices :
        LET t == transforms[i]
            u == transforms'[i]
        IN  (t.kind = "child" /\ t.processCompleted)
            => /\ ProcErrorHandler(t, i).err = NoError
               /\ ProcErrorHandler(t, i).t.hasError = t.hasError
               /\ StdinErrorHandler(t, i, "OTHER").err = NoError
               /\ StdinErrorHandler(t, i, "OTHER").t.hasError = t.hasError
               /\ (StdinError(i, "OTHER") \/ ProcError(i))
                    => /\ u.hasError = t.hasError
                       /\ u.destroyed = t.destroyed
                       /\ sp' = sp
    ]_vars

\* A non-EPIPE failure of the input pipe arrived after the process was
\* marked completed, and the run went on to resolve.
C36_Witness ==
    \E i \in Indices :
        /\ transforms[i].kind = "child"
        /\ transforms[i].processCompleted
        /\ transforms[i].stdin = "broken" /\ ~transforms[i].sawEpipe
        /\ ~transforms[i].hasError
        /\ Outcome = "resolved"

\* C37: in every state of every sink totalLength is the sum of the lengths
\* of the chunks in its buffer list, and every step leaves the list a
\* prefix of the new list and the counter no smaller.
C37_CounterMatchesList ==
    [][\A i \in Indices :
        LET t == transforms[i]
            u == transforms'[i]
        IN  /\ t.totalLength = SumLen(t.buffer)
            /\ u.totalLength = SumLen(u.buffer)
            /\ IsPrefix(t.buffer, u.buffer)
            /\ u.totalLength >= t.totalLength
            /\ Len(getBuffer(u)) = u.totalLength
    ]_vars

\* Both sinks of a run hold chunks: the accumulating sink two source chunks
\* of three bytes in all, the Process-Pipe sink two chunks of ffmpeg's output.
C37_Witness ==
    /\ Len(transforms) = 2
    /\ Len(transforms[1].buffer) = 2 /\ transforms[1].totalLength = 3
    /\ transforms[2].kind = "child" /\ ~transforms[2].echo
    /\ Len(transforms[2].buffer) = 2 /\ transforms[2].totalLength = 2

====
